---- MODULE Spec2Model ----
(***************************************************************************)
(* A model of the message store (src/utils.py) and of the request handler  *)
(* (src/main.py) of the call-flow relay.                                   *)
(*                                                                         *)
(* The backing file messages.json is modelled by two variables: fstate,    *)
(* what a reader finds on disk ("missing", "valid": a JSON array of turn   *)
(* objects, "corrupt": text json.load rejects, "not_array": valid JSON     *)
(* that is not an array of objects), and file, the array itself.  A turn   *)
(* is a record with the fields call_id, request, response and, when it has *)
(* one, timestamp.  A timestamp is a string, modelled as a tuple of digits *)
(* and compared as Python compares str: lexicographically.                 *)
(***************************************************************************)
EXTENDS Integers, Sequences, FiniteSets, TLC

VARIABLES fstate, file, clock, nAppend, last, hist, proc, http, reqs

vars == <<fstate, file, clock, nAppend, last, hist, proc, http, reqs>>

----------------------------------------------------------------------------
(* Bounds of the model *)

\* longest backing file the initial states hold
MaxInitLen == 15
\* Append calls in one behaviour of Spec
MaxAppends == 1
\* largest small limit Load is called with (beside the default limit)
MaxLimit == 2
\* longest initial file of SpecRace: the store holds fewer than 10 records
MaxRaceLen == 3
\* requests in one behaviour of SpecHandler
MaxRequests == 2
\* requests one server process handles at once in SpecConcurrent
MaxConcurrent == 2
\* requests of one call, one after another, in SpecSession
MaxSession == 12
\* Append calls in one behaviour of SpecAppendOnly
MaxRun == 12
\* how many of them, the first ones, the caller varies
MaxMixed == 2

(* Program constants *)

\* load_messages(filename, limit=10)
DefaultLimit == 10

----------------------------------------------------------------------------
(* Strings and timestamps *)

Min(a, b) == IF a <= b THEN a ELSE b
Max(a, b) == IF a >= b THEN a ELSE b

\* Python's str < str on strings of digits: lexicographic, a proper prefix
\* is smaller.
StrLT(a, b) ==
    \E k \in 1..(Min(Len(a), Len(b)) + 1) :
        /\ \A j \in 1..(k - 1) : a[j] = b[j]
        /\ \/ k > Len(a) /\ k <= Len(b)
           \/ k <= Len(a) /\ k <= Len(b) /\ a[k] < b[k]

StrLE(a, b) == a = b \/ StrLT(a, b)

\* datetime.now().isoformat(): fixed-width text, so that text order is time
\* order.  Two digits hold every clock value of the model.
IsoFormat(t) == <<t \div 10, t % 10>>

\* the empty string
EmptyStr == <<>>

CallIds == {"A", "B"}

\* x.get('timestamp', '')
SortKey(x) == IF "timestamp" \in DOMAIN x THEN x.timestamp ELSE EmptyStr

\* a turn without a timestamp, and one with
Turn(c, q, r) == [call_id |-> c, request |-> q, response |-> r]
StampedTurn(c, q, r, ts) ==
    [call_id |-> c, request |-> q, response |-> r, timestamp |-> ts]

----------------------------------------------------------------------------
(* list.sort(key=...) and slicing *)

\* insert x into the sorted sequence s behind every element whose key is
\* not greater: what a stable sort does with the next element of the input
RECURSIVE InsertStable(_, _)
InsertStable(s, x) ==
    IF s = <<>> THEN <<x>>
    ELSE IF StrLE(SortKey(s[Len(s)]), SortKey(x)) THEN Append(s, x)
    ELSE Append(InsertStable(SubSeq(s, 1, Len(s) - 1), x), s[Len(s)])

RECURSIVE SortFrom(_, _, _)
SortFrom(acc, s, i) ==
    IF i > Len(s) THEN acc ELSE SortFrom(InsertStable(acc, s[i]), s, i + 1)

\* all_messages.sort(key=lambda x: x.get('timestamp', '')): stable, ascending
SortByTimestamp(s) == SortFrom(<<>>, s, 1)

\* s[start:] of Python: a negative start counts from the end, and -0 is 0
PySliceFrom(s, start) ==
    LET from == IF start < 0 THEN Max(Len(s) + start, 0) ELSE Min(start, Len(s))
    IN  SubSeq(s, from + 1, Len(s))

\* the first limit messages instead of the last: all_messages[:limit]
RecentMessagesOldest(all, limit) ==
    IF Len(all) > limit THEN SubSeq(all, 1, limit) ELSE all

\* all_messages[-limit:] if len(all_messages) > limit else all_messages
RecentMessages(all, limit) ==
    IF Len(all) > limit THEN PySliceFrom(all, 0 - limit) ELSE all

----------------------------------------------------------------------------
(* The message store: src/utils.py *)

\* what a file operation of one call meets: no fault, an open() that
\* raises OSError, or a write that raises after open(..., "w") has
\* truncated the file
IoFaults == {"ok", "open_fails", "write_fails"}

Returned(v, fs, f) == [kind |-> "return", exc |-> "none", value |-> v, fstate |-> fs, file |-> f]
Raised(e, fs, f) == [kind |-> "raise", exc |-> e, value |-> <<>>, fstate |-> fs, file |-> f]

\* load_messages that answers a missing file without creating it
LoadBodyNoCreate(fs, f, limit, io) ==
    IF fs = "missing" THEN Returned(<<>>, fs, f)
    ELSE IF io = "open_fails" THEN Raised("OSError", fs, f)
    ELSE IF fs = "corrupt" THEN Raised("JSONDecodeError", fs, f)
    ELSE IF fs = "not_array" THEN Raised("AttributeError", fs, f)
    ELSE Returned(RecentMessages(SortByTimestamp(f), limit), fs, f)

\* load_messages that writes the sorted list back to the file
LoadBodySortsFile(fs, f, limit, io) ==
    IF fs = "missing" THEN
        CASE io = "open_fails" -> Raised("OSError", fs, f)
          [] io = "write_fails" -> Raised("OSError", "corrupt", <<>>)
          [] OTHER -> Returned(<<>>, "valid", <<>>)
    ELSE IF io = "open_fails" THEN Raised("OSError", fs, f)
    ELSE IF fs = "corrupt" THEN Raised("JSONDecodeError", fs, f)
    ELSE IF fs = "not_array" THEN Raised("AttributeError", fs, f)
    ELSE Returned(RecentMessages(SortByTimestamp(f), limit), fs, SortByTimestamp(f))

\* the try block of load_messages
LoadBody(fs, f, limit, io) ==
    IF fs = "missing" THEN
        CASE io = "open_fails" -> Raised("OSError", fs, f)
          [] io = "write_fails" -> Raised("OSError", "corrupt", <<>>)
          [] OTHER -> Returned(<<>>, "valid", <<>>)
    ELSE IF io = "open_fails" THEN Raised("OSError", fs, f)
    ELSE IF fs = "corrupt" THEN Raised("JSONDecodeError", fs, f)
    ELSE IF fs = "not_array" THEN Raised("AttributeError", fs, f)
    ELSE Returned(RecentMessages(SortByTimestamp(f), limit), fs, f)

\* load_messages without its second clause, except Exception
LoadExceptJsonOnly(b) ==
    IF b.kind = "raise" /\ b.exc = "JSONDecodeError" THEN Returned(<<>>, b.fstate, b.file)
    ELSE b

\* load_messages without its first clause, and a second one that lets a
\* JSONDecodeError through
LoadExceptNotJson(b) ==
    IF b.kind = "raise" /\ b.exc # "JSONDecodeError" THEN Returned(<<>>, b.fstate, b.file)
    ELSE b

\* load_messages with its two except clauses: both return []
LoadExcept(b) ==
    IF b.kind = "raise" /\ b.exc = "JSONDecodeError" THEN Returned(<<>>, b.fstate, b.file)
    ELSE IF b.kind = "raise" THEN Returned(<<>>, b.fstate, b.file)
    ELSE b

load_messages(fs, f, limit, io) == LoadExcept(LoadBody(fs, f, limit, io))

\* save_message that writes the record as it came
WithTimestampForgotten(m, now) == m

\* if 'timestamp' not in message_data: message_data['timestamp'] = now
WithTimestamp(m, now) ==
    IF "timestamp" \in DOMAIN m THEN m
    ELSE StampedTurn(m.call_id, m.request, m.response, IsoFormat(now))

\* a save_message that reads the whole history
SaveLoadUnbounded(fs, f, io) == load_messages(fs, f, Len(f) + 1, io)

\* a save_message that starts from an empty history without reading the file
SaveLoadNothing(fs, f, io) == Returned(<<>>, fs, f)

\* messages = load_messages(filename): the limit is the default one
SaveLoad(fs, f, io) == load_messages(fs, f, DefaultLimit, io)

\* the write of save_message: open(filename, "w") and json.dump
SaveWrite(messages, fs, f, io) ==
    CASE io = "open_fails" -> Raised("OSError", fs, f)
      [] io = "write_fails" -> Raised("OSError", "corrupt", <<>>)
      [] OTHER -> Returned(TRUE, "valid", messages)

\* the try block of save_message
SaveBody(fs, f, m, now, ioR, ioW) ==
    LET ld == SaveLoad(fs, f, ioR)
    IN  IF ld.kind = "raise" THEN ld
        ELSE SaveWrite(Append(ld.value, WithTimestamp(m, now)), ld.fstate, ld.file, ioW)

\* save_message without its except clause
save_message_uncaught(fs, f, m, now, ioR, ioW) == SaveBody(fs, f, m, now, ioR, ioW)

\* save_message: any exception is logged and False returned
save_message(fs, f, m, now, ioR, ioW) ==
    LET b == SaveBody(fs, f, m, now, ioR, ioW)
    IN  IF b.kind = "raise" THEN Returned(FALSE, b.fstate, b.file) ELSE b

\* [msg for msg in messages if msg.get("call_id") == call_id]
CallMessages(messages, c) == SelectSeq(messages, LAMBDA m : m.call_id = c)

\* get_call_history that filters the whole store and truncates afterwards
HistoryBodyFilterFirst(fs, f, c, io) ==
    LET ld == load_messages(fs, f, Len(f), io)
    IN  IF ld.kind = "raise" THEN ld
        ELSE Returned(RecentMessages(CallMessages(ld.value, c), DefaultLimit),
                      ld.fstate, ld.file)

\* the try block of get_call_history
HistoryBody(fs, f, c, io) ==
    LET ld == load_messages(fs, f, DefaultLimit, io)
    IN  IF ld.kind = "raise" THEN ld
        ELSE Returned(CallMessages(ld.value, c), ld.fstate, ld.file)

get_call_history(fs, f, c, io) ==
    LET b == HistoryBody(fs, f, c, io)
    IN  IF b.kind = "raise" THEN Returned(<<>>, b.fstate, b.file) ELSE b

----------------------------------------------------------------------------
(* Initial backing files *)

\* the i-th stored turn of an initial file of n turns, in four layouts:
\*  1  stored oldest first, the three oldest turns of call A, the rest of B
\*  2  stored newest first, the calls alternating
\*  3  timestamps tied in pairs, the three newest turns of call A
\*  4  all of call A, the turn stored last has no timestamp
InitTurn(layout, n, i) ==
    CASE layout = 1 ->
           StampedTurn(IF i <= 3 THEN "A" ELSE "B", <<"q", i>>, <<"r", i>>, IsoFormat(i))
      [] layout = 2 ->
           StampedTurn(IF i % 2 = 1 THEN "A" ELSE "B", <<"q", i>>, <<"r", i>>,
                       IsoFormat(n + 1 - i))
      [] layout = 3 ->
           StampedTurn(IF i > n - 3 THEN "A" ELSE "B", <<"q", i>>, <<"r", i>>,
                       IsoFormat((i + 1) \div 2))
      [] OTHER ->
           IF i = n THEN Turn("A", <<"q", i>>, <<"r", i>>)
           ELSE StampedTurn("A", <<"q", i>>, <<"r", i>>, IsoFormat(i))

Layouts == 1..4

InitFile(layout, n) == [i \in 1..n |-> InitTurn(layout, n, i)]

InitFiles == {InitFile(l, n) : l \in Layouts, n \in 0..MaxInitLen}

\* datetime.now() at the start: later than every initial timestamp
ClockStart == MaxInitLen + 1

NoOp ==
    [op |-> "none", arg |-> <<>>, io |-> <<"ok", "ok">>,
     pre |-> [fstate |-> "missing", file |-> <<>>],
     kind |-> "return", ret |-> <<>>, created |-> FALSE, followsLoadCreate |-> FALSE,
     repeats |-> FALSE, prevRet |-> <<>>, followsRecovery |-> FALSE]

\* a caller of save_message that has not started
Idle == [pc |-> "idle", messages |-> <<>>, rec |-> <<>>, ok |-> FALSE]

\* no request handled yet
NoRequest ==
    [n |-> 0, call_id |-> "", body |-> <<>>, pre |-> [fstate |-> "missing", file |-> <<>>],
     io |-> <<"ok", "ok", "ok">>, historyRead |-> FALSE, history |-> <<>>,
     llm |-> "not_called", llmCalled |-> FALSE, prompt |-> <<>>,
     status |-> 0, reply |-> <<>>, saved |-> "not_called", steps |-> <<>>,
     failed |-> {}, llmCalls |-> 0]

\* a request whose body has not arrived
Awaiting ==
    [pc |-> "awaiting", call_id |-> "", body |-> <<>>, status |-> 0, saved |-> "not_called",
     overlapped |-> FALSE]

InitCommon ==
    /\ clock = ClockStart
    /\ nAppend = 0
    /\ last = NoOp
    /\ hist = [appended |-> <<>>, ascending |-> TRUE]
    /\ proc = [p \in 1..2 |-> Idle]
    /\ http = NoRequest
    /\ reqs = [r \in 1..MaxConcurrent |-> Awaiting]

Init ==
    /\ \/ fstate \in {"missing", "corrupt", "not_array"} /\ file = <<>>
       \/ fstate = "valid" /\ file \in InitFiles
    /\ InitCommon

----------------------------------------------------------------------------
(* The store's operations, one call at a time *)

\* what the model remembers of the last call: its input, the file it met,
\* how it ended and what it returned; whether it repeats the call before it
\* (the same operation, input and faults, on a file that existed) and what
\* that call returned; whether it follows an Append that met a corrupt file
Outcome(op, arg, io, o) ==
    [op |-> op, arg |-> arg, io |-> io, pre |-> [fstate |-> fstate, file |-> file],
     kind |-> o.kind, ret |-> o.value,
     created |-> (fstate = "missing" /\ o.fstate = "valid"),
     followsLoadCreate |-> (last.op = "Load" /\ last.created),
     repeats |-> (last.op = op /\ last.arg = arg /\ last.io = io
                    /\ last.pre.fstate # "missing"),
     prevRet |-> IF last.op = op /\ last.arg = arg /\ last.io = io
                      /\ last.pre.fstate # "missing"
                 THEN last.ret ELSE <<>>,
     followsRecovery |-> (last.op = "Append" /\ last.pre.fstate = "corrupt"
                            /\ last.io = <<"ok", "ok">> /\ last.ret = TRUE)]

\* load_messages(limit=limit)
Load(limit, io) ==
    \E o \in {load_messages(fstate, file, limit, io)} :
        /\ fstate' = o.fstate
        /\ file' = o.file
        /\ last' = Outcome("Load", limit, <<io, "ok">>, o)
        /\ UNCHANGED <<clock, nAppend, hist, proc, http, reqs>>

\* get_call_history(call_id)
HistoryFor(c, io) ==
    \E o \in {get_call_history(fstate, file, c, io)} :
        /\ fstate' = o.fstate
        /\ file' = o.file
        /\ last' = Outcome("HistoryFor", c, <<io, "ok">>, o)
        /\ UNCHANGED <<clock, nAppend, hist, proc, http, reqs>>

\* the records handed to the Appends that succeeded so far, and whether each
\* carried a timestamp greater than that of the one before
Logged(m) ==
    [appended |-> Append(hist.appended, m),
     ascending |-> /\ hist.ascending
                   /\ "timestamp" \in DOMAIN m
                   /\ \/ hist.appended = <<>>
                      \/ StrLT(hist.appended[Len(hist.appended)].timestamp, m.timestamp)]

\* save_message(message_data)
AppendOp(m, ioR, ioW) ==
    \E o \in {save_message(fstate, file, m, clock, ioR, ioW)} :
        /\ fstate' = o.fstate
        /\ file' = o.file
        /\ clock' = clock + 1
        /\ nAppend' = nAppend + 1
        /\ last' = Outcome("Append", m, <<ioR, ioW>>, o)
        /\ hist' = IF o.value = TRUE THEN Logged(m) ELSE hist
        /\ UNCHANGED <<proc, http, reqs>>

Limits == (0..MaxLimit) \cup {DefaultLimit, MaxInitLen + 1}

\* the faults a read can meet: a write happens only when the file is missing
ReadFaults == IF fstate = "missing" THEN IoFaults ELSE {"ok", "open_fails"}

\* the records a caller hands to Append: without a timestamp, with an old
\* one, with the current time
NewTurns(k, now) ==
    LET q == <<"q", 90 + k>>
        r == <<"r", 90 + k>>
    IN  {Turn("A", q, r), StampedTurn("B", q, r, IsoFormat(0)),
         StampedTurn("A", q, r, IsoFormat(now))}

\* an Append without faults, and the read and write faults of one Append
AppendInputs(k, now) ==
    {<<m, "ok", "ok">> : m \in NewTurns(k, now)}
      \cup {<<Turn("A", <<"q", 90 + k>>, <<"r", 90 + k>>), io[1], io[2]>> :
              io \in {<<"open_fails", "ok">>, <<"ok", "open_fails">>, <<"ok", "write_fails">>}}

DoLoad == \E limit \in Limits, io \in ReadFaults : Load(limit, io)

DoHistoryFor == \E c \in CallIds, io \in ReadFaults : HistoryFor(c, io)

DoAppend ==
    /\ nAppend < MaxAppends
    /\ \E in \in AppendInputs(nAppend + 1, clock) : AppendOp(in[1], in[2], in[3])

Next == DoLoad \/ DoHistoryFor \/ DoAppend

Spec == Init /\ [][Next]_vars

----------------------------------------------------------------------------
(* A store filled by Append alone, from a missing or an empty file, without *)
(* faults                                                                   *)

InitAppendOnly ==
    /\ fstate \in {"missing", "valid"}
    /\ file = <<>>
    /\ InitCommon

\* what the caller appends: a turn stamped with the current time, and for
\* the first MaxMixed appends also a turn without a timestamp and a turn of
\* another call with an old one
RunTurns(k, now) ==
    LET q == <<"q", k>>
        r == <<"r", k>>
    IN  {StampedTurn("A", q, r, IsoFormat(now))}
          \cup (IF k <= MaxMixed
                THEN {Turn("A", q, r), StampedTurn("B", q, r, IsoFormat(0))}
                ELSE {})

RunLimits == {1, DefaultLimit, MaxRun}

RunLoad == \E limit \in RunLimits : Load(limit, "ok")

RunHistoryFor == \E c \in CallIds : HistoryFor(c, "ok")

RunAppend ==
    /\ nAppend < MaxRun
    /\ \E m \in RunTurns(nAppend + 1, clock) : AppendOp(m, "ok", "ok")

NextAppendOnly == RunLoad \/ RunHistoryFor \/ RunAppend

SpecAppendOnly == InitAppendOnly /\ [][NextAppendOnly]_vars

----------------------------------------------------------------------------
(* Two callers of save_message at once: the read of the history and the    *)
(* rewrite of the file are separate steps                                   *)

InitRace ==
    /\ \/ fstate = "missing" /\ file = <<>>
       \/ fstate = "valid" /\ file \in {InitFile(l, n) : l \in Layouts, n \in 0..MaxRaceLen}
    /\ InitCommon

\* the record caller p saves
RaceTurns(p, now) ==
    LET q == <<"q", 90 + p>>
        r == <<"r", 90 + p>>
    IN  {Turn(c, q, r) : c \in CallIds} \cup {StampedTurn("A", q, r, IsoFormat(now))}

\* the same caller re-reading the history when it writes
WriterListReread(p) == SaveLoad(fstate, file, "ok").value

\* messages: the list the caller read, to which it appends its record
WriterList(p) == proc[p].messages

\* messages = load_messages(filename); the timestamp is set if absent
RaceRead(p) ==
    /\ proc[p].pc = "idle"
    /\ \E m \in RaceTurns(p, clock), ld \in {SaveLoad(fstate, file, "ok")} :
         /\ fstate' = ld.fstate
         /\ file' = ld.file
         /\ proc' = [proc EXCEPT ![p] = [pc |-> "loaded", messages |-> ld.value,
                                         rec |-> WithTimestamp(m, clock), ok |-> FALSE]]
         /\ clock' = clock + 1
    /\ UNCHANGED <<nAppend, last, hist, http, reqs>>

\* messages.append(message_data); json.dump(messages, f); return True
RaceWrite(p) ==
    /\ proc[p].pc = "loaded"
    /\ \E o \in {SaveWrite(Append(WriterList(p), proc[p].rec), fstate, file, "ok")} :
         /\ fstate' = o.fstate
         /\ file' = o.file
         /\ proc' = [proc EXCEPT ![p].pc = "done", ![p].ok = o.value]
    /\ UNCHANGED <<clock, nAppend, last, hist, http, reqs>>

NextRace == \E p \in 1..2 : RaceRead(p) \/ RaceWrite(p)

SpecRace == InitRace /\ [][NextRace]_vars

----------------------------------------------------------------------------
(* The request handler: src/main.py *)

\* request.headers.get("call-id") when the header is absent
NoneId == "None"

\* the call identifiers a request carries: a call, the empty header, none
HeaderIds == CallIds \cup {"", NoneId}

\* a handler that reads the history whatever the call identifier is
TruthyAlways(c) == TRUE

\* "if call_id": None and the empty string are false
Truthy(c) == c # NoneId /\ c # ""

\* the content of the system message
Persona == <<"persona">>

SystemMessage(t) == [role |-> "system", content |-> t]
HumanMessage(t) == [role |-> "human", content |-> t]
AIMessage(t) == [role |-> "assistant", content |-> t]

\* for json_message in call_messages: langchain_messages.extend([...])
RECURSIVE HistoryEntries(_)
HistoryEntries(h) ==
    IF h = <<>> THEN <<>>
    ELSE <<HumanMessage(Head(h).request), AIMessage(Head(h).response)>>
           \o HistoryEntries(Tail(h))

\* the system message put behind the conversation
BuildPromptSystemLast(h, text) ==
    Append(Append(HistoryEntries(h), HumanMessage(text)), SystemMessage(Persona))

\* the list handed to llm.invoke: the history, the current message appended,
\* the system message inserted at index 0
BuildPrompt(h, text) ==
    <<SystemMessage(Persona)>> \o Append(HistoryEntries(h), HumanMessage(text))

\* a request body: bytes that are UTF-8 text, or bytes that are not
TextBody(t) == [utf8 |-> TRUE, text |-> t]
BadBody == [utf8 |-> FALSE, text |-> <<>>]

\* get_call_history(call_id) if call_id else []
CallHistory(c, io) ==
    IF Truthy(c) THEN get_call_history(fstate, file, c, io) ELSE Returned(<<>>, fstate, file)

\* a completion call whose failure is answered with an empty reply
LlmInvokeFallback(llm, k) ==
    IF llm = "raises" THEN [kind |-> "return", value |-> <<>>]
    ELSE [kind |-> "return", value |-> <<"r", 90 + k>>]

\* what llm.invoke(langchain_messages).content does for request k: the
\* reply, or an exception of the service client
LlmInvoke(llm, k) ==
    IF llm = "raises" THEN [kind |-> "raise", value |-> <<>>]
    ELSE [kind |-> "return", value |-> <<"r", 90 + k>>]

\* the record of a request as the model keeps it: its input, the file it
\* met, the steps it took in their order, the entries handed to the
\* completion service, the HTTP status and body, what save_message returned
\* ("true", "false"; "raised", "not_called" when it returned nothing)
Handled(c, body, io, read, h, llm, prompt, status, reply, saved, steps) ==
    [n |-> http.n + 1, call_id |-> c, body |-> body,
     pre |-> [fstate |-> fstate, file |-> file], io |-> io,
     historyRead |-> read, history |-> h,
     llm |-> llm, llmCalled |-> (llm # "not_called"), prompt |-> prompt,
     status |-> status, reply |-> reply, saved |-> saved, steps |-> steps,
     failed |-> IF llm = "raises" THEN http.failed \cup {body.text} ELSE http.failed,
     llmCalls |-> http.llmCalls + (IF llm # "not_called" THEN 1 ELSE 0)]

\* callflow, from the decoding of the body to the return: llm is what
\* llm.invoke does, io the faults of the history read and of the save.  The
\* handler catches nothing: an exception of a callee fails the request.
Callflow(c, body, llm, io) ==
    IF ~body.utf8 THEN
        \* body.decode('utf-8') raises
        /\ http' = Handled(c, body, io, FALSE, <<>>, "not_called", <<>>, 500, <<>>,
                           "not_called", <<"fail">>)
        /\ UNCHANGED <<fstate, file, clock, nAppend, last, hist, proc>>
    ELSE \E h \in {CallHistory(c, io[1])},
            read \in {IF Truthy(c) THEN <<"history">> ELSE <<>>} :
        IF h.kind = "raise" THEN
            /\ http' = Handled(c, body, io, Truthy(c), <<>>, "not_called", <<>>, 500, <<>>,
                               "not_called", read \o <<"fail">>)
            /\ fstate' = h.fstate
            /\ file' = h.file
            /\ UNCHANGED <<clock, nAppend, last, hist, proc>>
        ELSE \E inv \in {LlmInvoke(llm, http.n + 1)} :
          IF inv.kind = "raise" THEN
            /\ http' = Handled(c, body, io, Truthy(c), h.value, llm,
                               BuildPrompt(h.value, body.text), 500, <<>>, "not_called",
                               read \o <<"llm", "fail">>)
            /\ fstate' = h.fstate
            /\ file' = h.file
            /\ UNCHANGED <<clock, nAppend, last, hist, proc>>
          ELSE \E m \in {StampedTurn(c, body.text, inv.value, IsoFormat(clock))} :
               \E o \in {save_message(h.fstate, h.file, m, clock, io[2], io[3])} :
                /\ http' = IF o.kind = "raise"
                           THEN Handled(c, body, io, Truthy(c), h.value, llm,
                                        BuildPrompt(h.value, body.text), 500, <<>>, "raised",
                                        read \o <<"llm", "append", "fail">>)
                           ELSE Handled(c, body, io, Truthy(c), h.value, llm,
                                        BuildPrompt(h.value, body.text), 200, inv.value,
                                        IF o.value THEN "true" ELSE "false",
                                        read \o <<"llm", "append", "reply">>)
                /\ fstate' = o.fstate
                /\ file' = o.file
                /\ clock' = clock + 1
                /\ hist' = IF o.kind = "return" /\ o.value THEN Logged(m) ELSE hist
                /\ UNCHANGED <<nAppend, last, proc>>

\* the requests the model sends: every call identifier without faults, and
\* for call A a body that is not UTF-8, a failing completion service and
\* the store's faults
Requests(k) ==
    LET body == TextBody(<<"q", 90 + k>>)
        ok == <<"ok", "ok", "ok">>
    IN  {<<c, body, "replies", ok>> : c \in HeaderIds}
          \cup {<<"A", BadBody, "replies", ok>>, <<"A", body, "raises", ok>>}
          \cup {<<"A", body, "replies", io>> :
                  io \in {<<"open_fails", "ok", "ok">>, <<"ok", "ok", "open_fails">>,
                          <<"ok", "ok", "write_fails">>}}

DoCallflow ==
    /\ http.n < MaxRequests
    /\ \E r \in Requests(http.n + 1) : Callflow(r[1], r[2], r[3], r[4])
    /\ UNCHANGED reqs

\* a health check that opens the store first, as a request does
health_check_loading(fs, f, calls, t) ==
    LET o == load_messages(fs, f, DefaultLimit, "ok")
    IN  [code |-> 200, body |-> [status |-> "healthy", timestamp |-> IsoFormat(t)],
         fstate |-> o.fstate, file |-> o.file, llmCalls |-> calls]

\* health_check(): the answer, and the file and the count of llm.invoke
\* calls as it leaves them
health_check(fs, f, calls, t) ==
    [code |-> 200, body |-> [status |-> "healthy", timestamp |-> IsoFormat(t)],
     fstate |-> fs, file |-> f, llmCalls |-> calls]

\* GET /health
DoHealth ==
    \E o \in {health_check(fstate, file, http.llmCalls, clock)} :
        /\ fstate' = o.fstate
        /\ file' = o.file
        /\ http' = [http EXCEPT !.llmCalls = o.llmCalls]
        /\ last' = [NoOp EXCEPT !.op = "Health",
                                !.pre = [fstate |-> fstate, file |-> file],
                                !.ret = o.body]
        /\ UNCHANGED <<clock, nAppend, hist, proc, reqs>>

NextHandler == DoCallflow \/ DoHealth

SpecHandler == Init /\ [][NextHandler]_vars

----------------------------------------------------------------------------
(* One call: requests with the same call identifier, one after another,    *)
(* each answered, on a store no other call writes to                       *)

\* the k-th request of the session: the first one chooses the call
SessionRequest ==
    /\ http.n < MaxSession
    /\ \E c \in (IF http.n = 0 THEN CallIds ELSE {http.call_id}) :
         Callflow(c, TextBody(<<"q", 90 + http.n + 1>>), "replies", <<"ok", "ok", "ok">>)
    /\ UNCHANGED reqs

NextSession == SessionRequest \/ RunLoad \/ RunHistoryFor

SpecSession == InitAppendOnly /\ [][NextSession]_vars

----------------------------------------------------------------------------
(* Requests handled at once by one server process: the handler is a        *)
(* coroutine on a single-threaded event loop and gives up control only at  *)
(* its one await                                                            *)

\* body = await request.body(): the handler of request r is suspended until
\* the body has arrived
BodyArrives(r) ==
    /\ reqs[r].pc = "awaiting"
    /\ \E c \in CallIds :
         reqs' = [reqs EXCEPT ![r] = [pc |-> "ready", call_id |-> c,
                                      body |-> TextBody(<<"q", 90 + r>>), status |-> 0,
                                      saved |-> "not_called", overlapped |-> FALSE]]
    /\ UNCHANGED <<fstate, file, clock, nAppend, last, hist, proc, http>>

\* the rest of the handler, from the line after the await to the return:
\* no await in it, so no other handler runs in between.  overlapped notes
\* that another handler was suspended at its await meanwhile
Resume(r) ==
    /\ reqs[r].pc = "ready"
    /\ \E llm \in {"replies", "raises"} :
         Callflow(reqs[r].call_id, reqs[r].body, llm, <<"ok", "ok", "ok">>)
    /\ reqs' = [reqs EXCEPT ![r].pc = "done", ![r].status = http'.status,
                            ![r].saved = http'.saved,
                            ![r].overlapped = \E q \in DOMAIN reqs : q # r /\ reqs[q].pc = "ready"]

NextConcurrent == \E r \in 1..MaxConcurrent : BodyArrives(r) \/ Resume(r)

SpecConcurrent == InitRace /\ [][NextConcurrent]_vars

----------------------------------------------------------------------------
(* What the specification says of the store, stated without the operators  *)
(* above                                                                   *)

\* the timestamp a turn sorts by: the empty string when it has none
StampOf(x) == IF "timestamp" \in DOMAIN x THEN x.timestamp ELSE EmptyStr

\* the place of s[i] in s sorted ascending by timestamp, ties in stored order
RankIn(s, i) ==
    1 + Cardinality({j \in 1..Len(s) :
                       \/ StrLT(StampOf(s[j]), StampOf(s[i]))
                       \/ StampOf(s[j]) = StampOf(s[i]) /\ j < i})

\* s rearranged so that the element of rank k stands at place k
ByRank(s, rank) == [k \in 1..Len(s) |-> s[CHOOSE i \in 1..Len(s) : rank[i] = k]]

RECURSIVE RanksFrom(_, _)
RanksFrom(s, i) == IF i > Len(s) THEN <<>> ELSE <<RankIn(s, i)>> \o RanksFrom(s, i + 1)

Chronological(s) == ByRank(s, RanksFrom(s, 1))

\* the last m elements of s
LastOf(s, m) == [k \in 1..m |-> s[Len(s) - m + k]]

\* how often x occurs in s
Count(s, x) == Cardinality({i \in 1..Len(s) : s[i] = x})

RECURSIVE OfCall(_, _)
OfCall(s, c) ==
    IF s = <<>> THEN <<>>
    ELSE IF Head(s).call_id = c THEN <<Head(s)>> \o OfCall(Tail(s), c)
    ELSE OfCall(Tail(s), c)

NoFault == last.io = <<"ok", "ok">>

\* C1: the store only grows.  After every operation on a valid file, run
\* without I/O faults, each record the file held is still in it and the
\* file holds no fewer records than before.
C1_StoreOnlyGrows ==
    (last.op \in {"Load", "HistoryFor", "Append"} /\ last.pre.fstate = "valid" /\ NoFault)
      => /\ fstate = "valid"
         /\ Len(file) >= Len(last.pre.file)
         /\ \A i \in 1..Len(last.pre.file) :
              Count(file, last.pre.file[i]) >= Count(last.pre.file, last.pre.file[i])

\* C2: Append on a valid file of n records leaves n+1 records: the n prior
\* ones in ascending timestamp order, then the new record, last.
C2_AppendKeepsAllAndAddsOne ==
    (last.op = "Append" /\ last.pre.fstate = "valid" /\ NoFault)
      => /\ fstate = "valid"
         /\ Len(file) = Len(last.pre.file) + 1
         /\ SubSeq(file, 1, Len(last.pre.file)) = Chronological(last.pre.file)
         /\ file[Len(file)].call_id = last.arg.call_id
         /\ file[Len(file)].request = last.arg.request
         /\ file[Len(file)].response = last.arg.response

\* C4: Load(limit) on a valid file of n records returns the last
\* min(limit, n) records of the file sorted ascending by timestamp, for
\* every limit >= 0; Load(0) returns the empty sequence.
C4_LoadReturnsLastMinLimitN ==
    (last.op = "Load" /\ last.pre.fstate = "valid" /\ NoFault)
      => /\ last.kind = "return"
         /\ last.ret = LastOf(Chronological(last.pre.file),
                              Min(last.arg, Len(last.pre.file)))

\* C5: HistoryFor(c) returns the records of call c among the 10 most recent
\* records of the whole store, oldest first: the store is truncated first
\* and filtered second.
C5_HistoryTruncatesThenFilters ==
    (last.op = "HistoryFor" /\ last.pre.fstate = "valid" /\ NoFault)
      => /\ last.kind = "return"
         /\ last.ret = OfCall(LastOf(Chronological(last.pre.file),
                                     Min(DefaultLimit, Len(last.pre.file))),
                              last.arg)

\* 15 records, the 3 turns of call A the oldest: HistoryFor(A) returned
\* nothing
C5_Witness ==
    /\ last.op = "HistoryFor" /\ last.arg = "A" /\ NoFault
    /\ last.pre.fstate = "valid"
    /\ Len(last.pre.file) = 15
    /\ Len(OfCall(last.pre.file, "A")) = 3
    /\ \A i \in 1..3 : last.pre.file[i].call_id = "A"
    /\ last.ret = <<>>

\* C6: Load on a missing file creates it as an empty array and returns the
\* empty sequence; a Load right after finds the file and returns the empty
\* sequence again.
C6_LoadCreatesMissingFile ==
    /\ (last.op = "Load" /\ last.pre.fstate = "missing" /\ NoFault)
         => (fstate = "valid" /\ file = <<>> /\ last.kind = "return" /\ last.ret = <<>>)
    /\ (last.op = "Load" /\ last.followsLoadCreate)
         => /\ last.pre = [fstate |-> "valid", file |-> <<>>]
            /\ fstate = "valid" /\ file = <<>>
            /\ last.kind = "return" /\ last.ret = <<>>

\* the second of two Loads on a file that was missing
C6_Witness ==
    /\ last.op = "Load" /\ last.followsLoadCreate /\ NoFault
    /\ last.ret = <<>> /\ fstate = "valid"

\* C8: no store operation raises.  Whatever the file is and whatever fault
\* it meets, Load and HistoryFor return a sequence, the empty one when the
\* read fails, and Append returns a boolean, FALSE when the write fails.
C8_StoreNeverRaises ==
    /\ last.op \in {"Load", "HistoryFor", "Append"} => last.kind = "return"
    /\ (last.op \in {"Load", "HistoryFor"}
          /\ (last.pre.fstate \in {"corrupt", "not_array"} \/ last.io[1] # "ok"))
         => last.ret = <<>>
    /\ last.op \in {"Load", "HistoryFor"} => DOMAIN last.ret = 1..Len(last.ret)
    /\ last.op = "Append" => /\ last.ret \in BOOLEAN
                             /\ last.io[2] # "ok" => last.ret = FALSE

\* a Load of valid JSON that is no array of objects returned the empty
\* sequence
C8_Witness ==
    /\ last.op = "Load" /\ last.pre.fstate = "not_array"
    /\ last.kind = "return" /\ last.ret = <<>>

\* C3: after N Appends to an empty or missing store, each with an explicit
\* timestamp greater than the one before, Load(K) returns the last min(N, K)
\* appended records, oldest first, for every K >= 1.
C3_LoadReturnsLastAppended ==
    (last.op = "Load" /\ last.arg >= 1 /\ hist.ascending)
      => last.ret = LastOf(hist.appended, Min(Len(hist.appended), last.arg))

\* C7: in a store filled by Append alone every record read back has a
\* timestamp: Append gives one to a record that has none and keeps the one a
\* record brings, so Append of a turn of call A without a timestamp to the
\* empty store, then Load(1), returns that one turn with a timestamp that is
\* not empty.
C7_ReadBackHasTimestamp ==
    /\ fstate = "valid" => \A i \in 1..Len(file) : "timestamp" \in DOMAIN file[i]
    /\ last.op \in {"Load", "HistoryFor"}
         => \A i \in 1..Len(last.ret) : "timestamp" \in DOMAIN last.ret[i]
    /\ (last.op = "Append" /\ last.ret = TRUE)
         => /\ file # <<>>
            /\ "timestamp" \in DOMAIN last.arg => file[Len(file)] = last.arg
            /\ "timestamp" \notin DOMAIN last.arg
                 => /\ "timestamp" \in DOMAIN file[Len(file)]
                    /\ file[Len(file)].timestamp # EmptyStr
                    /\ Turn(file[Len(file)].call_id, file[Len(file)].request,
                            file[Len(file)].response) = last.arg
    /\ (last.op = "Load" /\ last.arg = 1 /\ Len(hist.appended) = 1
          /\ "timestamp" \notin DOMAIN hist.appended[1])
         => /\ Len(last.ret) = 1
            /\ last.ret[1].call_id = hist.appended[1].call_id
            /\ last.ret[1].request = hist.appended[1].request
            /\ last.ret[1].response = hist.appended[1].response
            /\ "timestamp" \in DOMAIN last.ret[1]
            /\ last.ret[1].timestamp # EmptyStr

\* Load(1) after the Append of one turn of call A that had no timestamp
C7_Witness ==
    /\ last.op = "Load" /\ last.arg = 1
    /\ hist.appended = <<Turn("A", <<"q", 1>>, <<"r", 1>>)>>
    /\ Len(last.ret) = 1
    /\ last.ret[1].call_id = "A"
    /\ last.ret[1].timestamp # EmptyStr

\* C9: Append is not atomic.  When two callers have read the same state of
\* a store of fewer than 10 records and both have written and returned
\* True, the file holds the records that were read and the record of one
\* caller only, the one that wrote last: the other's is lost.
C9_LastWriterWins ==
    (/\ \A p \in 1..2 : proc[p].pc = "done" /\ proc[p].ok = TRUE
     /\ proc[1].messages = proc[2].messages
     /\ Len(proc[1].messages) < DefaultLimit)
      => /\ fstate = "valid"
         /\ Len(file) = Len(proc[1].messages) + 1
         /\ SubSeq(file, 1, Len(file) - 1) = proc[1].messages
         /\ file[Len(file)] \in {proc[1].rec, proc[2].rec}
         /\ Count(file, proc[1].rec) + Count(file, proc[2].rec) = 1

\* both callers read the same two records and both returned True; the file
\* holds the record of caller 2 and not that of caller 1
C9_Witness ==
    /\ \A p \in 1..2 : proc[p].pc = "done" /\ proc[p].ok = TRUE
    /\ proc[1].messages = proc[2].messages
    /\ Len(proc[1].messages) = 2
    /\ Count(file, proc[1].rec) = 0
    /\ Count(file, proc[2].rec) = 1

\* C10: the entries handed to the completion service are one system entry,
\* then for each turn of the history HistoryFor returned, in its order, a
\* human entry with the turn's request and an assistant entry with its
\* response, then one human entry with the request body: 2*|history| + 2
\* entries.
C10_PromptShape ==
    http.llmCalled
      => /\ Len(http.prompt) = 2 * Len(http.history) + 2
         /\ http.prompt[1].role = "system"
         /\ \A i \in 2..Len(http.prompt) : http.prompt[i].role # "system"
         /\ \A j \in 1..Len(http.history) :
              /\ http.prompt[2 * j] = [role |-> "human", content |-> http.history[j].request]
              /\ http.prompt[2 * j + 1] =
                   [role |-> "assistant", content |-> http.history[j].response]
         /\ http.prompt[Len(http.prompt)] = [role |-> "human", content |-> http.body.text]
         /\ (http.call_id \in CallIds /\ http.pre.fstate = "valid" /\ http.io[1] = "ok")
              => http.history = OfCall(LastOf(Chronological(http.pre.file),
                                              Min(DefaultLimit, Len(http.pre.file))),
                                       http.call_id)

\* a request answered with a history of three turns in its prompt
C10_Witness ==
    /\ http.llmCalled /\ http.status = 200
    /\ Len(http.history) = 3
    /\ Len(http.prompt) = 8

\* C11: a request whose call identifier is absent or empty reads no
\* history, hands the completion service two entries, the persona and the
\* current message, whatever the file holds, and its turn is appended with
\* that call identifier.
C11_NoCallIdNoHistory ==
    (http.n > 0 /\ http.call_id \in {"", NoneId} /\ http.body.utf8)
      => /\ ~http.historyRead
         /\ http.history = <<>>
         /\ http.llmCalled
         /\ http.prompt = <<[role |-> "system", content |-> Persona],
                            [role |-> "human", content |-> http.body.text]>>
         /\ "append" \in {http.steps[i] : i \in 1..Len(http.steps)}
         /\ http.saved = "true"
              => /\ fstate = "valid" /\ file # <<>>
                 /\ file[Len(file)].call_id = http.call_id
                 /\ file[Len(file)].request = http.body.text
                 /\ file[Len(file)].response = http.reply

\* a request without call identifier, met by a file that holds a turn whose
\* call_id is null, answered from two entries and saved
C11_Witness ==
    /\ http.call_id = NoneId /\ http.status = 200 /\ http.saved = "true"
    /\ \E i \in 1..Len(http.pre.file) : http.pre.file[i].call_id = NoneId
    /\ Len(http.prompt) = 2
    /\ file[Len(file)].call_id = NoneId

\* C13: failures of the store do not fail the request.  When the history
\* cannot be read the request goes on with an empty history, and when the
\* save fails the handler still returns the reply of the completion service.
C13_StoreFailuresInvisible ==
    /\ http.llm = "replies"
         => /\ http.status = 200
            /\ http.reply = <<"r", 90 + http.n>>
            /\ http.saved \in {"true", "false"}
            /\ http.io[3] # "ok" => http.saved = "false"
    /\ (http.historyRead /\ (http.pre.fstate \in {"corrupt", "not_array"} \/ http.io[1] # "ok"))
         => /\ http.llmCalled
            /\ http.history = <<>>
            /\ Len(http.prompt) = 2

\* the save failed and the request was answered with the reply
C13_Witness ==
    /\ http.llm = "replies" /\ http.saved = "false"
    /\ http.status = 200 /\ http.reply = <<"r", 90 + http.n>>

\* the places of step x in the steps of the last request
StepsAt(x) == {i \in 1..Len(http.steps) : http.steps[i] = x}

\* C15: a request reads the history, calls the completion service, appends,
\* replies, in this order.  Append is called at most once, after the
\* completion service returned, with the request's call identifier, its
\* body and the reply.  When the completion service fails the request
\* fails, nothing is appended, and no record of that request is ever in the
\* store.
C15_RequestOrder ==
    /\ \A x \in {"history", "llm", "append", "reply"} : Cardinality(StepsAt(x)) <= 1
    /\ \A i \in StepsAt("history"), j \in StepsAt("llm") : i < j
    /\ \A j \in StepsAt("append") : \E i \in StepsAt("llm") : i < j /\ http.llm = "replies"
    /\ \A j \in StepsAt("reply") : \E i \in StepsAt("append") : i < j
    /\ http.status = 200 <=> StepsAt("reply") # {}
    /\ http.saved = "true"
         => /\ StepsAt("append") # {}
            /\ file[Len(file)].call_id = http.call_id
            /\ file[Len(file)].request = http.body.text
            /\ file[Len(file)].response = http.reply
    /\ http.llm = "raises"
         => /\ http.status = 500
            /\ StepsAt("append") = {}
            /\ http.saved = "not_called"
    /\ \A i \in 1..Len(file) : file[i].request \notin http.failed

\* a request answered after one whose completion call failed: the store
\* holds the turn of the second and none of the first
C15_Witness ==
    /\ http.n = 2 /\ http.status = 200 /\ http.saved = "true"
    /\ http.failed = {<<"q", 91>>}
    /\ http.steps = <<"history", "llm", "append", "reply">>

\* C12: context is kept per call.  In a session of answered requests of
\* one call, the prompt of the k-th request holds as history the last
\* min(k-1, 10) earlier turns of the call, request and response of each,
\* oldest first.
C12_SessionContext ==
    http.n > 0
      => /\ Len(hist.appended) = http.n
         /\ \A i \in 1..http.n : hist.appended[i].call_id = http.call_id
         /\ Len(http.prompt) = 2 * Min(http.n - 1, DefaultLimit) + 2
         /\ \A j \in 1..Min(http.n - 1, DefaultLimit) :
              /\ http.prompt[2 * j] =
                   [role |-> "human",
                    content |-> hist.appended[http.n - 1 - Min(http.n - 1, DefaultLimit) + j].request]
              /\ http.prompt[2 * j + 1] =
                   [role |-> "assistant",
                    content |-> hist.appended[http.n - 1 - Min(http.n - 1, DefaultLimit) + j].response]
         /\ http.prompt[Len(http.prompt)] = [role |-> "human", content |-> http.body.text]

\* the twelfth request of a call: its prompt holds the ten turns before it,
\* from the second on
C12_Witness ==
    /\ http.n = 12 /\ http.status = 200
    /\ Len(http.history) = 10
    /\ http.history[1].request = <<"q", 92>>
    /\ http.history[10].request = <<"q", 101>>

\* C14: HealthCheck answers with status "healthy" and does nothing else: it
\* leaves the file as it is, a missing file still missing, does not call
\* the completion service and appends nothing.
C14_HealthCheckIsPure ==
    [][DoHealth => /\ last'.ret.status = "healthy"
                   /\ fstate' = fstate /\ file' = file
                   /\ http'.llmCalls = http.llmCalls
                   /\ hist' = hist]_vars

\* a health check answered while the file is missing, after requests that
\* left it missing
C14_Witness ==
    /\ last.op = "Health"
    /\ last.ret.status = "healthy"
    /\ last.pre.fstate = "missing" /\ fstate = "missing"
    /\ http.n > 0

\* C16: the store is bounded.  Append reads the history with the default
\* limit, so after a successful Append the file holds the at most 10 latest
\* records it held before and the new one behind them; a store built by
\* Appends alone never holds more than 11 records.
C16_StoreBounded ==
    /\ Len(file) <= DefaultLimit + 1
    /\ (last.op = "Append" /\ last.ret = TRUE)
         => /\ Len(file) = Min(Len(last.pre.file), DefaultLimit) + 1
            /\ SubSeq(file, 1, Len(file) - 1)
                 = LastOf(Chronological(last.pre.file), Min(Len(last.pre.file), DefaultLimit))
            /\ file[Len(file)].request = last.arg.request
            /\ file[Len(file)].call_id = last.arg.call_id

\* the twelfth Append found 11 records and left 11
C16_Witness ==
    /\ last.op = "Append" /\ last.ret = TRUE
    /\ nAppend = 12
    /\ Len(last.pre.file) = DefaultLimit + 1
    /\ Len(file) = DefaultLimit + 1

\* C17: handlers of one process do not interleave after their await.  On
\* a store that stays below 10 records, once all concurrent requests are
\* done the file holds the turn of every request that was answered: no
\* handler's Append undoes another's.
C17_NoLostUpdateInOneProcess ==
    ((\A r \in DOMAIN reqs : reqs[r].pc = "done") /\ Len(file) < DefaultLimit)
      => \A r \in DOMAIN reqs :
           reqs[r].status = 200
             => /\ reqs[r].saved = "true"
                /\ \E i \in 1..Len(file) :
                     /\ file[i].call_id = reqs[r].call_id
                     /\ file[i].request = reqs[r].body.text

\* all requests answered, the handlers having been suspended together
C17_Witness ==
    /\ \A r \in DOMAIN reqs : reqs[r].pc = "done" /\ reqs[r].status = 200
    /\ \E r \in DOMAIN reqs : reqs[r].overlapped
    /\ Len(file) < DefaultLimit
    /\ Len(file) >= MaxConcurrent

\* C18: the reads leave an existing file alone.  Load with any limit and
\* HistoryFor with any call identifier, on a file that exists, valid or
\* not, leave the file as it was, whatever the I/O faults; and a read that
\* repeats the read before it returns what that one returned.
C18_ReadsLeaveFileAlone ==
    (last.op \in {"Load", "HistoryFor"})
      => /\ last.pre.fstate # "missing"
              => (fstate = last.pre.fstate /\ file = last.pre.file)
         /\ last.pre.fstate = "missing" => file = <<>>
         /\ last.repeats => last.ret = last.prevRet

\* a Load repeated on a file that is out of timestamp order and longer than
\* the limit: the same records returned, the file still in its old order
C18_Witness ==
    /\ last.op = "Load" /\ last.repeats /\ NoFault
    /\ last.arg > 0
    /\ last.pre.fstate = "valid"
    /\ Len(last.pre.file) > last.arg
    /\ last.pre.file # SortByTimestamp(last.pre.file)
    /\ Len(last.ret) = last.arg
    /\ file = last.pre.file

\* C19: Append recovers a corrupt file by overwriting it.  On a file that
\* cannot be parsed but can be written, Append returns success and leaves
\* a valid file of exactly one record, the new one; a Load that follows
\* returns exactly that record.
C19_AppendOverwritesCorruptFile ==
    /\ (last.op = "Append" /\ last.pre.fstate = "corrupt" /\ NoFault)
         => /\ last.ret = TRUE
            /\ fstate = "valid"
            /\ Len(file) = 1
            /\ file[1].call_id = last.arg.call_id
            /\ file[1].request = last.arg.request
            /\ file[1].response = last.arg.response
            /\ "timestamp" \in DOMAIN file[1]
    /\ (last.op = "Load" /\ last.followsRecovery /\ NoFault)
         => /\ Len(last.pre.file) = 1
            /\ last.ret = last.pre.file
            /\ file = last.pre.file

\* a Load after the Append that overwrote a corrupt file returns one record
C19_Witness ==
    /\ last.op = "Load" /\ last.followsRecovery /\ NoFault
    /\ Len(last.ret) = 1
    /\ hist.appended # <<>>
    /\ last.ret[1].request = hist.appended[1].request

====
